---------------------------- MODULE Spec2Model ----------------------------
(***************************************************************************)
(* Model of the page-extraction scheduler of pdf_struct                    *)
(* (extractor/src/extractor.rs): Extractor::iter_pages, spawn_tasks,       *)
(* spawn_page, iter_page and handle_task_completion, together with the     *)
(* tokio primitives they rely on (mpsc channels, JoinSet, spawn_blocking)  *)
(* and the native backend reached through the cxx bridge.                  *)
(***************************************************************************)
EXTENDS Integers, Sequences, FiniteSets, TLC

(***************************************************************************)
(* Bounds of the model.                                                    *)
(***************************************************************************)
MaxPages == 3
MaxCores == 1
SinkCap == 1
ChanCap == 1
MaxLivePages == 2
MaxPageIndex == 20
MaxDetected == 64
MaxBatchPages == 6
MaxBatchCores == 3
MaxTypes == 3
MaxObjs == 2
MaxAddCalls == 4
MaxPairCalls == 2
MaxErrTypes == 2

Pages == 0 .. (MaxPages - 1)

(***************************************************************************)
(* Native handles are opaque addresses; 0 is the null pointer.             *)
(***************************************************************************)
Null == 0
BaseDocAddr == Null + 1
BaseCtxAddr == Null + 2
CtxAddr(p) == 2 * p + 3
DocAddr(p) == 2 * p + 4

Undetectable == 0

Min(a, b) == IF a < b THEN a ELSE b

(***************************************************************************)
(* Messages are sequences of tokens; str::contains is contiguous           *)
(* sub-sequence search.                                                    *)
(***************************************************************************)
Contains(s, pat) ==
    \E i \in 1 .. (Len(s) - Len(pat) + 1) : SubSeq(s, i, i + Len(pat) - 1) = pat

MsgCorruption == <<"mupdf:", "Document corruption detected", "in xref">>
MsgInvalidCtx == <<"Invalid context handle">>
RenderMessages == {MsgCorruption, MsgInvalidCtx}

ControlMessage == {"Stop", "Pause", "Resume"}

(***************************************************************************)
(* enum PageRenderError and the Ok(()) outcome.                            *)
(***************************************************************************)
PageRenderError(c, d) == [cat |-> c, detail |-> d]
OkUnit == [cat |-> "Ok", detail |-> <<>>]
NoResult == [cat |-> "None", detail |-> <<>>]

(***************************************************************************)
(* impl From<&str> for PageRenderError.                                    *)
(***************************************************************************)
from_str(value) ==
    IF value = <<"Invalid context handle">>
    THEN PageRenderError("InvalidContextHandle", <<>>)
    ELSE IF value = <<"Passed nullptr for a buffer!">>
    THEN PageRenderError("PassedNullptrToBuffer", <<>>)
    ELSE IF value =
            <<"Attempted to access a page that doesn't exist within this document!">>
    THEN PageRenderError("PageDoesNotExist", <<>>)
    ELSE IF value = <<"Failed to create pixmap:", "Unknown error">>
    THEN PageRenderError("FailedToCreatePixMap", <<"Unknown Error!">>)
    ELSE IF Contains(value, <<"Failed to create pixmap:">>)
    THEN PageRenderError("FailedToCreatePixMap", value)
    ELSE IF Contains(value, <<"Failed to render page">>)
    THEN PageRenderError("RenderError", value)
    ELSE PageRenderError("Unexpected", value)

\* Variant of calc_max_concurrent_pages without the cap of 32 tasks.
calc_max_concurrent_pages_uncapped(cores) ==
    IF cores = Undetectable THEN 4
    ELSE IF cores \in 1 .. 4 THEN cores * 2
    ELSE IF cores \in 5 .. 8 THEN cores + 2
    ELSE IF cores \in 9 .. 16 THEN cores
    ELSE (cores * 3) \div 4

(***************************************************************************)
(* Extractor::calc_max_concurrent_pages as a function of the value of      *)
(* available_parallelism().                                                *)
(***************************************************************************)
calc_max_concurrent_pages(cores) ==
    IF cores = Undetectable THEN 4
    ELSE IF cores \in 1 .. 4 THEN cores * 2
    ELSE IF cores \in 5 .. 8 THEN cores + 2
    ELSE IF cores \in 9 .. 16 THEN cores
    ELSE Min((cores * 3) \div 4, 32)

BATCH_SIZE == 4

VARIABLES
    page_count,        \* Extractor.page_count
    doc_handle,        \* Extractor.doc_handle (base document handle)
    ctx_handle,        \* Extractor.ctx_handle (base context handle)
    parallelism,       \* value of available_parallelism() on this host
    controller,        \* messages queued in the control channel
    senderOpen,        \* whether a Sender<ControlMessage> still exists
    orch,              \* position of iter_pages
    exitBy,            \* the arm through which iter_pages returned
    pages_spawned,     \* local of iter_pages
    pages_completed,   \* local of iter_pages
    pool,              \* pages whose task is in the JoinSet
    scheduled,         \* page indices in the order spawn_tasks took them
    wrapper,           \* per page: state of the async block of spawn_page
    unit,              \* per page: state of the spawn_blocking closure
    result,            \* per page: value returned by iter_page
    thread_ctx_addr,   \* per page: cloned context handle
    thread_doc_addr,   \* per page: cloned document handle
    native,            \* per page: bridge calls made for the page, in order
    detached,          \* per page: state of the tokio::spawn'ed error report
    report,            \* per page: outcome a sender is trying to deliver
    accepted,          \* per page: outcomes the result channel accepted
    sinkLen,           \* outcomes buffered in the result channel
    sinkOpen,          \* whether the Receiver of the result channel exists
    call,              \* a function of the crate called on its own: its arguments
    ret                \* what that call returned

vars == <<page_count, doc_handle, ctx_handle, parallelism, controller,
          senderOpen, orch, exitBy, pages_spawned, pages_completed, pool,
          scheduled, wrapper, unit, result, thread_ctx_addr, thread_doc_addr,
          native, detached, report, accepted, sinkLen, sinkOpen, call, ret>>

sessionVars == <<page_count, doc_handle, ctx_handle, parallelism>>
controlVars == <<controller, senderOpen>>
loopVars == <<orch, exitBy, pages_spawned, pages_completed, pool, scheduled>>
handleVars == <<thread_ctx_addr, thread_doc_addr>>
sinkVars == <<accepted, sinkLen, sinkOpen>>
callVars == <<call, ret>>

\* A call through the bridge: its handle arguments and, when it threw, the
\* message of its exception.
CallThrew(f, d, c, what) == [fn |-> f, doc |-> d, ctx |-> c, what |-> what]
Call(f, d, c) == CallThrew(f, d, c, <<>>)

\* No message received, no task spawned, no outcome sent.
NoTasks ==
    /\ controller = <<>>
    /\ senderOpen = TRUE
    /\ orch = "Running"
    /\ exitBy = "none"
    /\ pages_completed = 0
    /\ pool = {}
    /\ scheduled = <<>>
    /\ wrapper = [p \in Pages |-> "none"]
    /\ unit = [p \in Pages |-> "none"]
    /\ result = [p \in Pages |-> NoResult]
    /\ thread_ctx_addr = [p \in Pages |-> Null]
    /\ thread_doc_addr = [p \in Pages |-> Null]
    /\ native = [p \in Pages |-> <<>>]
    /\ detached = [p \in Pages |-> "none"]
    /\ report = [p \in Pages |-> NoResult]
    /\ accepted = [p \in Pages |-> <<>>]
    /\ sinkLen = 0
    /\ sinkOpen = TRUE

\* iter_pages at its entry.
IterPagesEntry == pages_spawned = 0 /\ NoTasks

\* No function is being called on its own.
NoCall == [fn |-> "none"]
NotReturned == [done |-> FALSE, val |-> <<>>]
ReturnedValue(v) == [done |-> TRUE, val |-> v]

Init ==
    /\ page_count \in 0 .. MaxPages
    /\ doc_handle = BaseDocAddr
    /\ ctx_handle \in {Null, BaseCtxAddr}
    /\ parallelism \in 1 .. MaxCores
    /\ IterPagesEntry
    /\ call = NoCall
    /\ ret = NotReturned

(***************************************************************************)
(* The environment: the holder of the control Sender and the consumer of   *)
(* the result channel.                                                     *)
(***************************************************************************)
Returned == orch \in {"Completed", "Aborted"}

SendControl ==
    /\ ~Returned
    /\ senderOpen
    /\ Len(controller) < ChanCap
    /\ \E m \in ControlMessage : controller' = Append(controller, m)
    /\ UNCHANGED <<sessionVars, callVars, senderOpen, loopVars, wrapper, unit, result,
                   handleVars, native, detached, report, sinkVars>>

CloseControl ==
    /\ ~Returned
    /\ senderOpen
    /\ senderOpen' = FALSE
    /\ UNCHANGED <<sessionVars, callVars, controller, loopVars, wrapper, unit, result,
                   handleVars, native, detached, report, sinkVars>>

ConsumeResult ==
    /\ sinkOpen
    /\ sinkLen > 0
    /\ sinkLen' = sinkLen - 1
    /\ UNCHANGED <<sessionVars, callVars, controlVars, loopVars, wrapper, unit, result,
                   handleVars, native, detached, report, accepted, sinkOpen>>

CloseSink ==
    /\ sinkOpen
    /\ sinkOpen' = FALSE
    /\ sinkLen' = 0
    /\ UNCHANGED <<sessionVars, callVars, controlVars, loopVars, wrapper, unit, result,
                   handleVars, native, detached, report, accepted>>

(***************************************************************************)
(* tokio primitives.                                                       *)
(***************************************************************************)
\* Receiver::recv: the next queued message, None once the channel is closed
\* and drained, otherwise not ready.
RecvReady == controller # <<>> \/ ~senderOpen
RecvValue == IF controller # <<>> THEN Head(controller) ELSE "None"
RecvRest == IF controller # <<>> THEN Tail(controller) ELSE controller

\* JoinSet::abort_all: every task of the set that has not run to completion
\* is cancelled at the await it is suspended on (or before its first poll).
abort_all(w) ==
    [p \in Pages |->
        IF p \in pool /\ w[p] \in {"unpolled", "awaiting", "sending"}
        THEN "cancelled" ELSE w[p]]

\* Sender::send: completes when the channel has room (Ok) or is closed (Err).
SendReady == sinkLen < SinkCap \/ ~sinkOpen

(***************************************************************************)
(* Extractor::clone_ctx and Extractor::clone_doc.  reply is what the       *)
(* bridge call does: whether it returns Ok and what it writes to the out   *)
(* pointer.                                                                *)
(***************************************************************************)
BackendWhat == "backend error"
CloneReplies(fresh) ==
    {[ok |-> FALSE, out |-> Null], [ok |-> TRUE, out |-> Null],
     [ok |-> TRUE, out |-> fresh]}

\* Variant of clone_ctx without the null checks: it trusts the base handle
\* and whatever the backend wrote when it reported success.
clone_ctx_unchecked(reply) ==
    IF ~reply.ok
    THEN [ok |-> FALSE, val |-> Null,
          err |-> <<"Failed to clone context:", BackendWhat>>,
          calls |-> <<Call("clone", Null, ctx_handle)>>]
    ELSE [ok |-> TRUE, val |-> reply.out, err |-> <<>>,
          calls |-> <<Call("clone", Null, ctx_handle)>>]

clone_ctx(reply) ==
    IF ctx_handle = Null
    THEN [ok |-> FALSE, val |-> Null, err |-> <<"Base context handle is null">>,
          calls |-> <<>>]
    ELSE IF ~reply.ok
    THEN [ok |-> FALSE, val |-> Null,
          err |-> <<"Failed to clone context:", BackendWhat>>,
          calls |-> <<Call("clone", Null, ctx_handle)>>]
    ELSE IF reply.out = Null
    THEN [ok |-> FALSE, val |-> Null, err |-> <<"Cloned context is null">>,
          calls |-> <<Call("clone", Null, ctx_handle)>>]
    ELSE [ok |-> TRUE, val |-> reply.out, err |-> <<>>,
          calls |-> <<Call("clone", Null, ctx_handle)>>]

clone_doc(new_ctx, reply) ==
    IF ~reply.ok
    THEN [ok |-> FALSE, val |-> Null,
          err |-> <<"Failed to clone document:", BackendWhat>>,
          calls |-> <<Call("clone_doc", Null, new_ctx)>>]
    ELSE IF reply.out = Null
    THEN [ok |-> FALSE, val |-> Null, err |-> <<"Cloned document is null">>,
          calls |-> <<Call("clone_doc", Null, new_ctx)>>]
    ELSE [ok |-> TRUE, val |-> reply.out, err |-> <<>>,
          calls |-> <<Call("clone_doc", Null, new_ctx)>>]

(***************************************************************************)
(* Extractor::spawn_tasks.                                                 *)
(***************************************************************************)
\* Variant of batch_count that forgets the tasks already in the pool.
batch_count_ignores_pool(poolLen) == BATCH_SIZE

\* Variant of batch_count that takes every available slot at once.
batch_count_unbatched(poolLen) ==
    calc_max_concurrent_pages(parallelism) - poolLen

\* batch_count: min(available_slots, BATCH_SIZE)
batch_count(poolLen) ==
    Min(calc_max_concurrent_pages(parallelism) - poolLen, BATCH_SIZE)

\* Variant of spawn_one without the `continue` of the clone_ctx error arm: the
\* page is spawned with the null context.
spawn_one_falls_through(q, rc, rd) ==
    LET cx == clone_ctx(rc)
        dx == clone_doc(cx.val, rd)
    IN  IF ~dx.ok
        THEN [spawn |-> FALSE, ctx |-> cx.val, doc |-> Null,
              calls |-> cx.calls \o dx.calls
                          \o <<Call("cleanup_pdf", Null, cx.val)>>,
              detached |-> "pending",
              report |-> PageRenderError("Unexpected", dx.err)]
        ELSE [spawn |-> TRUE, ctx |-> cx.val, doc |-> dx.val,
              calls |-> cx.calls \o dx.calls,
              detached |-> IF cx.ok THEN "none" ELSE "pending",
              report |-> IF cx.ok THEN NoResult
                         ELSE PageRenderError("Unexpected", cx.err)]

\* Variant of spawn_one whose clone_doc error arm hands cleanup_pdf the
\* session's own context handle instead of the clone it just made.
spawn_one_releases_base(q, rc, rd) ==
    LET cx == clone_ctx(rc)
        dx == clone_doc(cx.val, rd)
    IN  IF ~cx.ok
        THEN [spawn |-> FALSE, ctx |-> Null, doc |-> Null, calls |-> cx.calls,
              detached |-> "pending",
              report |-> PageRenderError("Unexpected", cx.err)]
        ELSE IF ~dx.ok
        THEN [spawn |-> FALSE, ctx |-> cx.val, doc |-> Null,
              calls |-> cx.calls \o dx.calls
                          \o <<Call("cleanup_pdf", Null, ctx_handle)>>,
              detached |-> "pending",
              report |-> PageRenderError("Unexpected", dx.err)]
        ELSE [spawn |-> TRUE, ctx |-> cx.val, doc |-> dx.val,
              calls |-> cx.calls \o dx.calls,
              detached |-> "none", report |-> NoResult]

\* One iteration of the for loop, for page index q: what it leaves behind.
spawn_one(q, rc, rd) ==
    LET cx == clone_ctx(rc)
        dx == clone_doc(cx.val, rd)
    IN  IF ~cx.ok
        THEN [spawn |-> FALSE, ctx |-> Null, doc |-> Null, calls |-> cx.calls,
              detached |-> "pending",
              report |-> PageRenderError("Unexpected", cx.err)]
        ELSE IF ~dx.ok
        THEN [spawn |-> FALSE, ctx |-> cx.val, doc |-> Null,
              calls |-> cx.calls \o dx.calls
                          \o <<Call("cleanup_pdf", Null, cx.val)>>,
              detached |-> "pending",
              report |-> PageRenderError("Unexpected", dx.err)]
        ELSE [spawn |-> TRUE, ctx |-> cx.val, doc |-> dx.val,
              calls |-> cx.calls \o dx.calls,
              detached |-> "none", report |-> NoResult]

\* Variant of batch_pages without the `if page >= self.page_count` return.
batch_pages_overruns(poolLen) ==
    pages_spawned .. (pages_spawned + batch_count(poolLen) - 1)

\* The pages the for loop visits: it stops at batch_count iterations or when
\* page >= self.page_count.
batch_pages(poolLen) ==
    pages_spawned ..
        (pages_spawned + Min(batch_count(poolLen), page_count - pages_spawned) - 1)

Lowest(S) == CHOOSE x \in S : \A y \in S : x <= y
Highest(S) == CHOOSE x \in S : \A y \in S : x >= y

RECURSIVE SeqOfRange(_, _)
SeqOfRange(a, b) == IF a > b THEN <<>> ELSE <<a>> \o SeqOfRange(a + 1, b)

spawn_tasks ==
    LET batch == batch_pages(Cardinality(pool))
    IN  \E rc \in [batch -> UNION {CloneReplies(CtxAddr(q)) : q \in Pages}],
           rd \in [batch -> UNION {CloneReplies(DocAddr(q)) : q \in Pages}] :
          /\ \A q \in batch : rc[q] \in CloneReplies(CtxAddr(q))
                              /\ rd[q] \in CloneReplies(DocAddr(q))
          /\ LET one == [q \in batch |-> spawn_one(q, rc[q], rd[q])]
             IN  /\ pages_spawned' = pages_spawned + Cardinality(batch)
                 /\ scheduled' = scheduled \o SeqOfRange(Lowest(batch), Highest(batch))
                 /\ pool' = pool \cup {q \in batch : one[q].spawn}
                 /\ wrapper' = [p \in Pages |->
                        IF p \in batch /\ one[p].spawn THEN "unpolled"
                        ELSE wrapper[p]]
                 /\ thread_ctx_addr' = [p \in Pages |->
                        IF p \in batch THEN one[p].ctx ELSE thread_ctx_addr[p]]
                 /\ thread_doc_addr' = [p \in Pages |->
                        IF p \in batch THEN one[p].doc ELSE thread_doc_addr[p]]
                 /\ native' = [p \in Pages |->
                        IF p \in batch THEN native[p] \o one[p].calls
                        ELSE native[p]]
                 /\ detached' = [p \in Pages |->
                        IF p \in batch THEN one[p].detached ELSE detached[p]]
                 /\ report' = [p \in Pages |->
                        IF p \in batch THEN one[p].report ELSE report[p]]

(***************************************************************************)
(* Extractor::handle_task_completion: the new value of pages_completed.    *)
(***************************************************************************)
\* Variant of handle_task_completion that counts only the tasks that ended
\* in a JoinError.
handle_task_completion_counts_errors(completed, joined) ==
    IF joined = "Ok" THEN completed ELSE completed + 1

handle_task_completion(completed, joined) ==
    IF joined = "Ok" THEN completed + 1 ELSE completed

(***************************************************************************)
(* Extractor::iter_pages: the arms of the select! of the main loop and of  *)
(* the match of the nested pause loop.                                     *)
(***************************************************************************)
\* Variant of control_arm whose pause loop ignores Stop.
control_arm_stop_ignored_paused(mode, msg) ==
    IF mode = "Running"
    THEN IF msg = "Stop" THEN "Aborted"
         ELSE IF msg = "Pause" THEN "Paused"
         ELSE "Running"
    ELSE IF msg = "Resume" THEN "Running"
         ELSE IF msg = "None" THEN "Aborted"
         ELSE "Paused"

\* Variant of control_arm in which Pause toggles: a Pause received in the
\* pause loop resumes.
control_arm_pause_toggles(mode, msg) ==
    IF mode = "Running"
    THEN IF msg = "Stop" THEN "Aborted"
         ELSE IF msg = "Pause" THEN "Paused"
         ELSE "Running"
    ELSE IF msg \in {"Resume", "Pause"} THEN "Running"
         ELSE IF msg \in {"Stop", "None"} THEN "Aborted"
         ELSE "Paused"

\* Variant of control_arm whose main loop treats a closed channel as Stop.
control_arm_closed_aborts(mode, msg) ==
    IF mode = "Running"
    THEN IF msg \in {"Stop", "None"} THEN "Aborted"
         ELSE IF msg = "Pause" THEN "Paused"
         ELSE "Running"
    ELSE IF msg = "Resume" THEN "Running"
         ELSE IF msg \in {"Stop", "None"} THEN "Aborted"
         ELSE "Paused"

\* Variant of control_arm whose pause loop treats a closed channel as the
\* main loop does: it leaves the pause and lets the tasks drain.
control_arm_paused_closed_drains(mode, msg) ==
    IF mode = "Running"
    THEN IF msg = "Stop" THEN "Aborted"
         ELSE IF msg = "Pause" THEN "Paused"
         ELSE "Running"
    ELSE IF msg \in {"Resume", "None"} THEN "Running"
         ELSE IF msg = "Stop" THEN "Aborted"
         ELSE "Paused"

\* The match on the received message: the position iter_pages is in next.
control_arm(mode, msg) ==
    IF mode = "Running"
    THEN IF msg = "Stop" THEN "Aborted"
         ELSE IF msg = "Pause" THEN "Paused"
         ELSE "Running"
    ELSE IF msg = "Resume" THEN "Running"
         ELSE IF msg \in {"Stop", "None"} THEN "Aborted"
         ELSE "Paused"

\* Receiving in position mode; returning drops the Receiver and the JoinSet.
Receive(mode) ==
    /\ orch = mode
    /\ RecvReady
    /\ orch' = control_arm(mode, RecvValue)
    /\ IF orch' = "Aborted"
       THEN /\ exitBy' = (IF mode = "Paused" THEN "Paused" ELSE "")
                             \o (IF RecvValue = "None" THEN "Closed" ELSE RecvValue)
            /\ wrapper' = abort_all(wrapper)
            /\ controller' = <<>>
       ELSE /\ controller' = RecvRest
            /\ UNCHANGED <<exitBy, wrapper>>
    /\ UNCHANGED <<sessionVars, callVars, senderOpen, pages_spawned, pages_completed,
                   pool, scheduled, unit, result, handleVars, native, detached,
                   report, sinkVars>>

\* msg = controller.recv() of the select!
RecvBranch == Receive("Running")

\* controller.recv().await of the pause loop
PausedRecv == Receive("Paused")

\* Variant of spawn_ready that looks only at the pages left.
spawn_ready_ignores_pool(poolLen) == pages_spawned < page_count

\* The precondition of the spawn arm of the select!.
spawn_ready(poolLen) ==
    pages_spawned < page_count /\ poolLen < calc_max_concurrent_pages(parallelism)

\* The spawn arm as a function of the pool size: whether it is ready and the
\* indices spawn_tasks takes.
spawn_arm(poolLen) ==
    IF spawn_ready(poolLen)
    THEN [ready |-> TRUE, batch |-> batch_pages(poolLen)]
    ELSE [ready |-> FALSE, batch |-> {}]

\* Variant of SpawnBranch that the pause loop does not suspend.
SpawnBranch_while_paused ==
    /\ orch \in {"Running", "Paused"}
    /\ pages_spawned < page_count
    /\ Cardinality(pool) < calc_max_concurrent_pages(parallelism)
    /\ spawn_tasks
    /\ UNCHANGED <<sessionVars, callVars, controlVars, orch, exitBy, pages_completed, unit,
                   result, sinkVars>>

SpawnBranch ==
    /\ orch = "Running"
    /\ spawn_ready(Cardinality(pool))
    /\ spawn_tasks
    /\ UNCHANGED <<sessionVars, callVars, controlVars, orch, exitBy, pages_completed, unit,
                   result, sinkVars>>

\* The body of the join arm.  JoinSet::join_next yields None at once on an
\* empty set, and handle_task_completion then hits unreachable!, which panics
\* out of iter_pages; otherwise it yields a task that has ended.
join_arm ==
    /\ IF pool = {}
       THEN /\ orch' = "Panicked"
            /\ exitBy' = "Unreachable"
            /\ UNCHANGED <<pool, pages_completed>>
       ELSE /\ \E p \in pool :
                 /\ wrapper[p] \in {"finished", "cancelled"}
                 /\ pool' = pool \ {p}
                 /\ pages_completed' = handle_task_completion(pages_completed,
                        IF wrapper[p] = "finished" THEN "Ok" ELSE "Cancelled")
            /\ UNCHANGED <<orch, exitBy>>
    /\ UNCHANGED <<sessionVars, callVars, controlVars, pages_spawned, scheduled,
                   wrapper, unit, result, handleVars, native, detached, report,
                   sinkVars>>

\* Variant of JoinBranch that the pause loop does not suspend.
JoinBranch_while_paused ==
    /\ orch \in {"Running", "Paused"}
    /\ pool # {}
    /\ join_arm

\* Variant of JoinBranch without the `if !pool.is_empty()` precondition.
JoinBranch_unguarded ==
    /\ orch = "Running"
    /\ join_arm

JoinBranch ==
    /\ orch = "Running"
    /\ pool # {}
    /\ join_arm

\* Variant of ExitBranch that waits for pages_completed to reach page_count.
ExitBranch_counts_completed ==
    /\ orch = "Running"
    /\ pages_completed >= page_count
    /\ pool = {}
    /\ orch' = "Completed"
    /\ exitBy' = "Completed"
    /\ controller' = <<>>
    /\ UNCHANGED <<sessionVars, callVars, senderOpen, pages_spawned, pages_completed,
                   pool, scheduled, wrapper, unit, result, handleVars, native,
                   detached, report, sinkVars>>

\* Variant of ExitBranch whose guard is pages_spawned >= page_count alone.
ExitBranch_ignores_pool ==
    /\ orch = "Running"
    /\ pages_spawned >= page_count
    /\ orch' = "Completed"
    /\ exitBy' = "Completed"
    /\ controller' = <<>>
    /\ UNCHANGED <<sessionVars, callVars, senderOpen, pages_spawned, pages_completed,
                   pool, scheduled, wrapper, unit, result, handleVars, native,
                   detached, report, sinkVars>>

\* Variant of ExitBranch whose guard is pool.is_empty() alone.
ExitBranch_ignores_spawned ==
    /\ orch = "Running"
    /\ pool = {}
    /\ orch' = "Completed"
    /\ exitBy' = "Completed"
    /\ controller' = <<>>
    /\ UNCHANGED <<sessionVars, callVars, senderOpen, pages_spawned, pages_completed,
                   pool, scheduled, wrapper, unit, result, handleVars, native,
                   detached, report, sinkVars>>

ExitBranch ==
    /\ orch = "Running"
    /\ pages_spawned >= page_count
    /\ pool = {}
    /\ orch' = "Completed"
    /\ exitBy' = "Completed"
    /\ controller' = <<>>
    /\ UNCHANGED <<sessionVars, callVars, senderOpen, pages_spawned, pages_completed,
                   pool, scheduled, wrapper, unit, result, handleVars, native,
                   detached, report, sinkVars>>

(***************************************************************************)
(* Extractor::iter_page, run inside spawn_blocking.                        *)
(***************************************************************************)
CorruptionPatterns ==
    {<<"Document corruption detected">>, <<"corrupted and cannot be processed">>,
     <<"object out of range">>, <<"non-page object in page tree">>}

\* The Err value iter_page returns for the backend message error_msg.
render_error(page, error_msg) ==
    IF \E pat \in CorruptionPatterns : Contains(error_msg, pat)
    THEN PageRenderError("Unexpected",
             <<"Document corruption detected", "at page", ToString(page), ":">>
                 \o error_msg)
    ELSE PageRenderError("Unexpected", error_msg)

cleanup_ctx_and_doc(c, d) == Call("cleanup_pdf", d, c)

\* What bridge::render_page can do: return the image, or throw with a message.
RenderReplies ==
    {[ok |-> TRUE, what |-> <<>>]}
        \cup {[ok |-> FALSE, what |-> m] : m \in RenderMessages}

\* Variant of iter_page_render whose error arm returns without cleanup.
iter_page_render_leaks(page, c, d, reply) ==
    IF c = Null
    THEN [unit |-> "returned", calls |-> <<>>,
          result |-> PageRenderError("InvalidContextHandle", <<>>)]
    ELSE IF d = Null
    THEN [unit |-> "returned", calls |-> <<>>,
          result |-> PageRenderError("Unexpected", <<"Document handle is null">>)]
    ELSE IF reply.ok
    THEN [unit |-> "rendered", calls |-> <<Call("render_page", d, c)>>,
          result |-> NoResult]
    ELSE [unit |-> "returned",
          calls |-> <<CallThrew("render_page", d, c, reply.what)>>,
          result |-> render_error(page, reply.what)]

\* From the handle validation to the match on the render result.
iter_page_render(page, c, d, reply) ==
    IF c = Null
    THEN [unit |-> "returned", calls |-> <<>>,
          result |-> PageRenderError("InvalidContextHandle", <<>>)]
    ELSE IF d = Null
    THEN [unit |-> "returned", calls |-> <<>>,
          result |-> PageRenderError("Unexpected", <<"Document handle is null">>)]
    ELSE IF reply.ok
    THEN [unit |-> "rendered", calls |-> <<Call("render_page", d, c)>>,
          result |-> NoResult]
    ELSE [unit |-> "returned",
          calls |-> <<CallThrew("render_page", d, c, reply.what),
                      cleanup_ctx_and_doc(c, d)>>,
          result |-> render_error(page, reply.what)]

\* Variant of iter_page_finish that frees the image before the callback runs
\* and flushes the cache after the handles are released.
iter_page_finish_out_of_order(page, c, d, panics) ==
    IF panics
    THEN [unit |-> "panicked",
          calls |-> <<Call("free_image_data", Null, Null),
                      Call("callback", Null, Null)>>,
          result |-> NoResult]
    ELSE [unit |-> "returned",
          calls |-> <<Call("free_image_data", Null, Null),
                      Call("callback", Null, Null),
                      cleanup_ctx_and_doc(c, d)>>
                    \o (IF page % 10 = 0
                        THEN <<Call("flush_cache", Null, c)>> ELSE <<>>),
          result |-> OkUnit]

\* Variant of iter_page_finish that flushes the cache after every page.
iter_page_finish_flushes_each(page, c, d, panics) ==
    IF panics
    THEN [unit |-> "panicked", calls |-> <<Call("callback", Null, Null)>>,
          result |-> NoResult]
    ELSE [unit |-> "returned",
          calls |-> <<Call("callback", Null, Null),
                      Call("free_image_data", Null, Null),
                      Call("flush_cache", Null, c),
                      cleanup_ctx_and_doc(c, d)>>,
          result |-> OkUnit]

\* From the callback to the end of iter_page.  A panic of the callback
\* unwinds out of the closure.
iter_page_finish(page, c, d, panics) ==
    IF panics
    THEN [unit |-> "panicked", calls |-> <<Call("callback", Null, Null)>>,
          result |-> NoResult]
    ELSE [unit |-> "returned",
          calls |-> <<Call("callback", Null, Null),
                      Call("free_image_data", Null, Null)>>
                    \o (IF page % 10 = 0
                        THEN <<Call("flush_cache", Null, c)>> ELSE <<>>)
                    \o <<cleanup_ctx_and_doc(c, d)>>,
          result |-> OkUnit]

\* iter_page from entry to return (or to the panic that unwinds out of it).
iter_page(page, c, d, reply, panics) ==
    LET r == iter_page_render(page, c, d, reply)
        f == iter_page_finish(page, c, d, panics)
    IN  IF r.unit = "rendered"
        THEN [unit |-> f.unit, calls |-> r.calls \o f.calls, result |-> f.result]
        ELSE r

UnitRender(p) ==
    /\ unit[p] = "queued"
    /\ \E reply \in RenderReplies :
         LET r == iter_page_render(p, thread_ctx_addr[p], thread_doc_addr[p], reply)
         IN  /\ unit' = [unit EXCEPT ![p] = r.unit]
             /\ native' = [native EXCEPT ![p] = @ \o r.calls]
             /\ result' = [result EXCEPT ![p] = r.result]
    /\ UNCHANGED <<sessionVars, callVars, controlVars, loopVars, wrapper, handleVars,
                   detached, report, sinkVars>>

UnitCallback(p) ==
    /\ unit[p] = "rendered"
    /\ \E panics \in BOOLEAN :
         LET r == iter_page_finish(p, thread_ctx_addr[p], thread_doc_addr[p], panics)
         IN  /\ unit' = [unit EXCEPT ![p] = r.unit]
             /\ native' = [native EXCEPT ![p] = @ \o r.calls]
             /\ result' = [result EXCEPT ![p] = r.result]
    /\ UNCHANGED <<sessionVars, callVars, controlVars, loopVars, wrapper, handleVars,
                   detached, report, sinkVars>>

(***************************************************************************)
(* Extractor::spawn_page: the async block added to the JoinSet.            *)
(***************************************************************************)
\* First poll: spawn_blocking dispatches the closure, the block awaits it.
WrapperPoll(p) ==
    /\ wrapper[p] = "unpolled"
    /\ wrapper' = [wrapper EXCEPT ![p] = "awaiting"]
    /\ unit' = [unit EXCEPT ![p] = "queued"]
    /\ UNCHANGED <<sessionVars, callVars, controlVars, loopVars, result, handleVars,
                   native, detached, report, sinkVars>>

\* Sender::send(o) completing for page p: Ok when the receiver exists.
Deliver(p, o) ==
    IF sinkOpen
    THEN /\ accepted' = [accepted EXCEPT ![p] = Append(@, o)]
         /\ sinkLen' = sinkLen + 1
         /\ UNCHANGED sinkOpen
    ELSE UNCHANGED sinkVars

\* The outcome built from a JoinError.
TaskPanicked ==
    PageRenderError("Unexpected", <<"Task panicked:", "JoinError::Panic">>)

\* Variant of spawn_page_outcome that only logs a JoinError.
spawn_page_outcome_drops_panic(u, res) ==
    IF u = "panicked" THEN NoResult
    ELSE IF res = OkUnit THEN NoResult
    ELSE res

\* The match on the JoinHandle's result: what is sent, if anything.
spawn_page_outcome(u, res) ==
    IF u = "panicked" THEN TaskPanicked
    ELSE IF res = OkUnit THEN NoResult
    ELSE res

\* Variant of WrapperResume that uses try_send: a full channel drops the
\* outcome.
WrapperResume_try_send(p) ==
    /\ wrapper[p] = "awaiting"
    /\ unit[p] \in {"returned", "panicked"}
    /\ wrapper' = [wrapper EXCEPT ![p] = "finished"]
    /\ LET o == spawn_page_outcome(unit[p], result[p])
       IN  IF o = NoResult
           THEN UNCHANGED <<report, sinkVars>>
           ELSE /\ report' = [report EXCEPT ![p] = o]
                /\ IF sinkLen < SinkCap
                   THEN Deliver(p, o)
                   ELSE UNCHANGED sinkVars
    /\ UNCHANGED <<sessionVars, callVars, controlVars, loopVars, unit, result,
                   handleVars, native, detached>>

WrapperResume(p) ==
    /\ wrapper[p] = "awaiting"
    /\ unit[p] \in {"returned", "panicked"}
    /\ LET o == spawn_page_outcome(unit[p], result[p])
       IN  IF o = NoResult
           THEN /\ wrapper' = [wrapper EXCEPT ![p] = "finished"]
                /\ UNCHANGED <<report, sinkVars>>
           ELSE /\ report' = [report EXCEPT ![p] = o]
                /\ IF SendReady
                   THEN /\ wrapper' = [wrapper EXCEPT ![p] = "finished"]
                        /\ Deliver(p, o)
                   ELSE /\ wrapper' = [wrapper EXCEPT ![p] = "sending"]
                        /\ UNCHANGED sinkVars
    /\ UNCHANGED <<sessionVars, callVars, controlVars, loopVars, unit, result, handleVars,
                   native, detached>>

WrapperSend(p) ==
    /\ wrapper[p] = "sending"
    /\ SendReady
    /\ wrapper' = [wrapper EXCEPT ![p] = "finished"]
    /\ Deliver(p, report[p])
    /\ UNCHANGED <<sessionVars, callVars, controlVars, loopVars, unit, result, handleVars,
                   native, detached, report>>

\* The task tokio::spawn'ed by spawn_tasks to report a clone failure.
DetachedSend(p) ==
    /\ detached[p] = "pending"
    /\ SendReady
    /\ detached' = [detached EXCEPT ![p] = "done"]
    /\ Deliver(p, report[p])
    /\ UNCHANGED <<sessionVars, callVars, controlVars, loopVars, wrapper, unit, result,
                   handleVars, native, report>>

Next ==
    \/ SendControl
    \/ CloseControl
    \/ ConsumeResult
    \/ CloseSink
    \/ RecvBranch
    \/ PausedRecv
    \/ SpawnBranch
    \/ JoinBranch
    \/ ExitBranch
    \/ \E p \in Pages : WrapperPoll(p)
    \/ \E p \in Pages : UnitRender(p)
    \/ \E p \in Pages : UnitCallback(p)
    \/ \E p \in Pages : WrapperResume(p)
    \/ \E p \in Pages : WrapperSend(p)
    \/ \E p \in Pages : DetachedSend(p)

Spec == Init /\ [][Next]_vars

(***************************************************************************)
(* The same program under the scheduling tokio provides: select! polls its *)
(* arms in random order, so an arm that stays ready is eventually taken;   *)
(* the runtime polls every spawned task and runs every spawn_blocking      *)
(* closure; the semaphore of a bounded channel serves waiting senders in   *)
(* order, so a sender is served if room appears again and again.  Nothing  *)
(* is assumed of the holder of the control Sender or of the consumer of    *)
(* the result channel.                                                     *)
(***************************************************************************)
LiveInit == Init /\ page_count <= MaxLivePages

Fairness ==
    /\ WF_vars(RecvBranch)
    /\ WF_vars(PausedRecv)
    /\ WF_vars(SpawnBranch)
    /\ WF_vars(JoinBranch)
    /\ WF_vars(ExitBranch)
    /\ \A p \in Pages :
         /\ WF_vars(WrapperPoll(p))
         /\ WF_vars(UnitRender(p))
         /\ WF_vars(UnitCallback(p))
         /\ WF_vars(WrapperResume(p))
         /\ SF_vars(WrapperSend(p))
         /\ SF_vars(DetachedSend(p))

FairSpec == LiveInit /\ [][Next]_vars /\ Fairness

(***************************************************************************)
(* The same, for runs in which the main loop is left and re-entered again  *)
(* and again (Pause, Resume, Pause, ...): every iteration of the loop      *)
(* draws the order of the arms of select! anew, so a spawn, join or        *)
(* completion arm that is ready on infinitely many iterations is           *)
(* eventually taken.                                                       *)
(***************************************************************************)
LivePages == 0 .. (MaxLivePages - 1)

SelectFairness ==
    /\ WF_vars(RecvBranch)
    /\ WF_vars(PausedRecv)
    /\ SF_vars(SpawnBranch)
    /\ SF_vars(JoinBranch)
    /\ SF_vars(ExitBranch)
    /\ \A p \in LivePages :
         /\ WF_vars(WrapperPoll(p))
         /\ WF_vars(UnitRender(p))
         /\ WF_vars(UnitCallback(p))
         /\ WF_vars(WrapperResume(p))
         /\ SF_vars(WrapperSend(p))

SelectFairSpec == LiveInit /\ [][Next]_vars /\ SelectFairness

TypeOK ==
    /\ orch \in {"Running", "Paused", "Completed", "Aborted", "Panicked"}
    /\ pages_spawned \in 0 .. MaxPages
    /\ pool \subseteq Pages

(***************************************************************************)
(* pdf-struct-classifier, instances.rs: ConcreteObject.  A type is known   *)
(* by its TypeId; a child is an Arc (its allocation obj) of a page of one  *)
(* type; self carries its children in the order they were pushed and the   *)
(* TypeIds of T::CHILDREN.                                                 *)
(***************************************************************************)
TypeIds == 1 .. MaxTypes
ChildArcs == [obj : 1 .. MaxObjs, id : TypeIds]

Ok == [ok |-> TRUE, err |-> <<>>]
Err(e) == [ok |-> FALSE, err |-> e]

\* ConcreteObject as from_obj_internal builds it: no children yet.
from_obj_internal(expected) == [children |-> <<>>, expected_children |-> expected]

\* ConcreteObject::add_child_unchecked: the push without either test.
add_child_unchecked(self, child) ==
    [result |-> Ok, self |-> [self EXCEPT !.children = Append(@, child)]]

\* Variant of add_child that tests only whether the type is expected.
add_child_allows_duplicates(self, child) ==
    IF ~(\E child_type \in self.expected_children : child_type = child.id)
    THEN [result |-> Err(<<"Child", ToString(child.id), "is not allowed for parent">>),
          self |-> self]
    ELSE [result |-> Ok, self |-> [self EXCEPT !.children = Append(@, child)]]

\* ConcreteObject::add_child
add_child(self, child) ==
    IF \E i \in DOMAIN self.children : self.children[i].id = child.id
    THEN [result |-> Err(<<"Child of this type already exists">>), self |-> self]
    ELSE IF ~(\E child_type \in self.expected_children : child_type = child.id)
    THEN [result |-> Err(<<"Child", ToString(child.id), "is not allowed for parent">>),
          self |-> self]
    ELSE [result |-> Ok, self |-> [self EXCEPT !.children = Append(@, child)]]

(***************************************************************************)
(* pdf-struct-classifier, instances.rs: ConcretePair and ConcreteRoot.     *)
(* arcs is the heap of Arc<ConcretePair> allocations in the order they     *)
(* were made: the ConcretePair each holds and its strong count.  An        *)
(* Option is <<>> for None and <<x>> for Some(x); a Weak is the index of   *)
(* the allocation it was downgraded from.                                  *)
(***************************************************************************)
\* ConcretePair::mutate_object_to_pair
mutate_object_to_pair(obj, sequence) ==
    [inner |-> obj, pair |-> <<>>, sequence |-> sequence]

\* Arc::new, dropping an Arc, Weak::upgrade
Arc_new(arcs, value) == Append(arcs, [value |-> value, strong |-> 1])
Arc_drop(arcs, k) == [arcs EXCEPT ![k].strong = @ - 1]
upgrade(arcs, weak) == IF arcs[weak].strong > 0 THEN <<weak>> ELSE <<>>

\* ConcretePair::bind_pair: the heap it leaves and the two Arcs it returns.
bind_pair(arcs, obj_1, obj_2) ==
    LET with_p1 == Arc_new(arcs, mutate_object_to_pair(obj_1, "First"))
        p1 == Len(with_p1)
        with_p2 == Arc_new(with_p1, mutate_object_to_pair(obj_2, "Last"))
        p2 == Len(with_p2)
        bound_1 == [with_p2 EXCEPT ![p1].value.pair = <<p2>>]
        bound_2 == [bound_1 EXCEPT ![p2].value.pair = <<p1>>]
    IN  [arcs |-> bound_2, p1 |-> p1, p2 |-> p2]

\* ConcretePair::get_pair_info
get_pair_info(arcs, self) ==
    IF self.pair = <<>> THEN <<>> ELSE upgrade(arcs, self.pair[1])

\* <ConcretePair as Clone>::clone: a new ConcretePair, outside any Arc, with
\* a clone of the Weak.
clone_pair(self) ==
    [inner |-> self.inner, pair |-> self.pair, sequence |-> self.sequence]

\* ConcreteRoot::new
ConcreteRoot_new == [children |-> <<>>]

\* ConcreteRoot::add_pair_child::<T, U, _, _>: p1_rc and p2_rc are locals,
\* dropped when the function returns.
add_pair_child(self, arcs, T, U) ==
    IF \E i \in DOMAIN self.children : self.children[i].inner \in {T, U}
    THEN [result |-> Err(<<"One of the pair types", ToString(T), ToString(U),
                           "already exists as a root child">>),
          self |-> self, arcs |-> arcs]
    ELSE LET b == bind_pair(arcs, T, U)
         IN  [result |-> Ok,
              self |-> [children |-> self.children
                            \o <<clone_pair(b.arcs[b.p1].value),
                                 clone_pair(b.arcs[b.p2].value)>>],
              arcs |-> Arc_drop(Arc_drop(b.arcs, b.p2), b.p1)]

(***************************************************************************)
(* pdf-struct-classifier, instances.rs: the type-erased methods of a       *)
(* ConcreteObject.  A function pointer is known by its address; a TypeId   *)
(* is the type it was taken of, spelled out; a Box<dyn AnyClone> carries   *)
(* the TypeId of the value put into it next to the value.                  *)
(***************************************************************************)
ErrorTypes == 1 .. MaxErrTypes
FnPtrs == 1 .. MaxObjs

\* TypeId::of::<fn(&[u8]) -> ClassificationResult<T, E>>()
TypeId_of_ClassificationMethod(T, E) ==
    [of |-> "fn(&[u8]) -> ClassificationResult<T, E>", T |-> T, E |-> E, S |-> 0]

\* TypeId::of::<fn(&[u8], T) -> Result<S, E>>()
TypeId_of_ExtractionMethod(T, E, S) ==
    [of |-> "fn(&[u8], T) -> Result<S, E>", T |-> T, E |-> E, S |-> S]

\* What .type_id() yields on the field itself: the Box is 'static, so the
\* call resolves to Any for Box<dyn AnyClone>, whatever the Box holds.
TypeId_of_Box ==
    [of |-> "Box<dyn AnyClone>", T |-> 0, E |-> 0, S |-> 0]

\* Box::new(f as ClassificationMethod<T, E>) and its extraction twin.
Box_new(type_id, f) == [type_id |-> type_id, f |-> f]

\* (b.as_ref() as &dyn Any).downcast_ref::<X>() where type_id is that of X
downcast_ref(b, type_id) == IF b.type_id = type_id THEN <<b.f>> ELSE <<>>

TypeMismatch(expected, actual) ==
    [ok |-> FALSE, err |-> "TypeMismatch", expected |-> expected, actual |-> actual]
OkFn(f) == [ok |-> TRUE, f |-> f]

\* Variant of cast_classification that downcasts the Box instead of the
\* value in it.
cast_classification_of_box(self, T, E) ==
    LET expected_type_id == TypeId_of_ClassificationMethod(T, E)
        actual_type_id == TypeId_of_Box
    IN  IF actual_type_id = expected_type_id
        THEN OkFn(self.classification_method.f)
        ELSE TypeMismatch(expected_type_id, actual_type_id)

\* ConcreteObject::cast_classification::<T, E>
cast_classification(self, T, E) ==
    LET expected_type_id == TypeId_of_ClassificationMethod(T, E)
        actual_type_id == TypeId_of_Box
        func_ptr == downcast_ref(self.classification_method, expected_type_id)
    IN  IF func_ptr # <<>> THEN OkFn(func_ptr[1])
        ELSE TypeMismatch(expected_type_id, actual_type_id)

\* ConcreteObject::cast_extraction::<T, E, S>
cast_extraction(self, T, E, S) ==
    LET expected_type_id == TypeId_of_ExtractionMethod(T, E, S)
        actual_type_id == TypeId_of_Box
        func_ptr == downcast_ref(self.extraction_method, expected_type_id)
    IN  IF func_ptr # <<>> THEN OkFn(func_ptr[1])
        ELSE TypeMismatch(expected_type_id, actual_type_id)

\* The two method fields as from_obj_internal (and the test) fill them, for
\* an object of type S with shared data T and error E.
with_methods(T, E, S, classify, extract) ==
    [classification_method |->
         Box_new(TypeId_of_ClassificationMethod(T, E), classify),
     extraction_method |->
         Box_new(TypeId_of_ExtractionMethod(T, E, S), extract),
     stored |-> [T |-> T, E |-> E, S |-> S, classify |-> classify,
                 extract |-> extract]]

(***************************************************************************)
(* The functions of the crate called on their own, on arguments drawn from *)
(* bounded sets: iter_page on page indices up to MaxPageIndex, and         *)
(* calc_max_concurrent_pages on core counts up to MaxDetected.             *)
(***************************************************************************)
IterPageCalls ==
    {[fn |-> "iter_page", page |-> i, ctx |-> c, doc |-> d, reply |-> r,
      panics |-> b] :
        i \in 0 .. MaxPageIndex, c \in {Null, CtxAddr(0)}, d \in {Null, DocAddr(0)},
        r \in RenderReplies, b \in BOOLEAN}

CapacityCalls ==
    {[fn |-> "calc_max_concurrent_pages", cores |-> n] : n \in 0 .. MaxDetected}

\* What bridge::init can do: throw with a message, or return after writing
\* the two handles and the page count.
InitWhat == <<"cannot open document">>
InitReplies ==
    {[ok |-> FALSE, what |-> InitWhat, doc |-> Null, ctx |-> Null, pages |-> 0]}
        \cup {[ok |-> TRUE, what |-> <<>>, doc |-> d, ctx |-> c, pages |-> n] :
                 d \in {Null, BaseDocAddr}, c \in {Null, BaseCtxAddr},
                 n \in 0 .. MaxPages}

\* Extractor::new: .unwrap() on the Err of bridge::init panics.
new(reply) ==
    IF ~reply.ok
    THEN [kind |-> "panic",
          what |-> <<"called Result::unwrap() on an Err value:">> \o reply.what,
          doc_handle |-> Null, ctx_handle |-> Null, page_count |-> 0]
    ELSE [kind |-> "Self", what |-> <<>>, doc_handle |-> reply.doc,
          ctx_handle |-> reply.ctx, page_count |-> reply.pages]

\* Variant of drop that cleans up only when both handles are non-null.
drop_needs_both(self) ==
    IF self.doc_handle # Null /\ self.ctx_handle # Null
    THEN <<Call("cleanup_pdf", self.doc_handle, self.ctx_handle)>>
    ELSE <<>>

\* <Extractor as Drop>::drop: the bridge calls it makes.
drop(self) ==
    IF self.doc_handle # Null \/ self.ctx_handle # Null
    THEN <<Call("cleanup_pdf", self.doc_handle, self.ctx_handle)>>
    ELSE <<>>

NewCalls == {[fn |-> "new", reply |-> r] : r \in InitReplies}

SpawnArmCalls ==
    {[fn |-> "spawn_arm", pool_len |-> n] :
        n \in 0 .. calc_max_concurrent_pages(MaxBatchCores)}

\* add_child is first called on an object fresh from from_obj_internal; n counts
\* the calls made on the object so far.
AddChildCalls ==
    {[fn |-> "add_child", self |-> from_obj_internal(e), child |-> c, n |-> 1] :
        e \in SUBSET TypeIds, c \in ChildArcs}

\* bind_pair on the objects of any two types, on an empty heap.
BindPairCalls ==
    {[fn |-> "bind_pair", arcs |-> <<>>, obj_1 |-> t, obj_2 |-> u] :
        t \in TypeIds, u \in TypeIds}

\* add_pair_child is first called on a root fresh from ConcreteRoot::new.
AddPairChildCalls ==
    {[fn |-> "add_pair_child", self |-> ConcreteRoot_new, arcs |-> <<>>,
      T |-> t, U |-> u, n |-> 1] : t \in TypeIds, u \in TypeIds}

\* The casts, asked for any type parameters, on an object whose methods
\* were stored with any type parameters.
MethodObjects ==
    {with_methods(t, e, s, c, x) :
        t \in TypeIds, e \in ErrorTypes, s \in TypeIds, c \in FnPtrs,
        x \in FnPtrs}
CastClassificationCalls ==
    {[fn |-> "cast_classification", self |-> o, T |-> t, E |-> e] :
        o \in MethodObjects, t \in TypeIds, e \in ErrorTypes}
CastExtractionCalls ==
    {[fn |-> "cast_extraction", self |-> o, T |-> t, E |-> e, S |-> s] :
        o \in MethodObjects, t \in TypeIds, e \in ErrorTypes, s \in TypeIds}

CallInputs ==
    IterPageCalls \cup CapacityCalls \cup NewCalls \cup SpawnArmCalls
        \cup AddChildCalls \cup BindPairCalls \cup AddPairChildCalls
        \cup CastClassificationCalls \cup CastExtractionCalls

\* The spawn arm is entered with any pages_spawned <= page_count and any pool
\* of at most pages_spawned tasks within the capacity.
CallInit ==
    /\ call \in CallInputs
    /\ ret = NotReturned
    /\ doc_handle = BaseDocAddr
    /\ ctx_handle = BaseCtxAddr
    /\ IF call.fn = "spawn_arm"
       THEN /\ page_count \in 0 .. MaxBatchPages
            /\ parallelism \in 1 .. MaxBatchCores
            /\ pages_spawned \in 0 .. page_count
            /\ call.pool_len <= pages_spawned
            /\ call.pool_len <= calc_max_concurrent_pages(parallelism)
       ELSE /\ page_count = 0
            /\ parallelism = 1
            /\ pages_spawned = 0
    /\ NoTasks

Returns(v) ==
    /\ ~ret.done
    /\ ret' = ReturnedValue(v)
    /\ UNCHANGED <<sessionVars, call, controlVars, loopVars, wrapper, unit,
                   result, handleVars, native, detached, report, sinkVars>>

CallIterPage ==
    /\ call.fn = "iter_page"
    /\ Returns(iter_page(call.page, call.ctx, call.doc, call.reply, call.panics))

CallCapacity ==
    /\ call.fn = "calc_max_concurrent_pages"
    /\ Returns(calc_max_concurrent_pages(call.cores))

CallNew ==
    /\ call.fn = "new"
    /\ Returns(new(call.reply))

\* The owner of the Extractor that new returned lets it go out of scope.
EndOfLife ==
    /\ call.fn = "new"
    /\ ret.done
    /\ ret.val.kind = "Self"
    /\ call' = [fn |-> "drop", self |-> ret.val]
    /\ ret' = NotReturned
    /\ UNCHANGED <<sessionVars, controlVars, loopVars, wrapper, unit, result,
                   handleVars, native, detached, report, sinkVars>>

CallDrop ==
    /\ call.fn = "drop"
    /\ Returns(drop(call.self))

CallSpawnArm ==
    /\ call.fn = "spawn_arm"
    /\ Returns(spawn_arm(call.pool_len))

CallAddChild ==
    /\ call.fn = "add_child"
    /\ Returns(add_child(call.self, call.child))

\* The holder of the object calls add_child on it again, with any child.
AddChildAgain ==
    /\ call.fn = "add_child"
    /\ ret.done
    /\ call.n < MaxAddCalls
    /\ \E c \in ChildArcs :
         call' = [fn |-> "add_child", self |-> ret.val.self, child |-> c,
                  n |-> call.n + 1]
    /\ ret' = NotReturned
    /\ UNCHANGED <<sessionVars, controlVars, loopVars, wrapper, unit, result,
                   handleVars, native, detached, report, sinkVars>>

CallBindPair ==
    /\ call.fn = "bind_pair"
    /\ Returns(bind_pair(call.arcs, call.obj_1, call.obj_2))

CallAddPairChild ==
    /\ call.fn = "add_pair_child"
    /\ Returns(add_pair_child(call.self, call.arcs, call.T, call.U))

\* The holder of the root calls add_pair_child on it again.
AddPairChildAgain ==
    /\ call.fn = "add_pair_child"
    /\ ret.done
    /\ call.n < MaxPairCalls
    /\ \E t \in TypeIds, u \in TypeIds :
         call' = [fn |-> "add_pair_child", self |-> ret.val.self,
                  arcs |-> ret.val.arcs, T |-> t, U |-> u, n |-> call.n + 1]
    /\ ret' = NotReturned
    /\ UNCHANGED <<sessionVars, controlVars, loopVars, wrapper, unit, result,
                   handleVars, native, detached, report, sinkVars>>

CallCastClassification ==
    /\ call.fn = "cast_classification"
    /\ Returns(cast_classification(call.self, call.T, call.E))

CallCastExtraction ==
    /\ call.fn = "cast_extraction"
    /\ Returns(cast_extraction(call.self, call.T, call.E, call.S))

CallNext ==
    \/ CallCastClassification
    \/ CallCastExtraction
    \/ CallAddChild
    \/ AddChildAgain
    \/ CallBindPair
    \/ CallAddPairChild
    \/ AddPairChildAgain
    \/ CallSpawnArm
    \/ CallIterPage
    \/ CallCapacity
    \/ CallNew
    \/ EndOfLife
    \/ CallDrop

CallSpec == CallInit /\ [][CallNext]_vars

(***************************************************************************)
(* Vocabulary of the properties.                                           *)
(***************************************************************************)
\* How often spawn_tasks took page index i.
SchedCount(i) == Cardinality({k \in DOMAIN scheduled : scheduled[k] = i})

AllScheduledOnce == \A i \in 0 .. (page_count - 1) : SchedCount(i) = 1

\* Every bridge call made so far, as <<page, position in the page's log>>.
CallSites == UNION {{<<q, i>> : i \in DOMAIN native[q]} : q \in Pages}
CallAt(site) == native[site[1]][site[2]]

\* How often cleanup_pdf was handed the context (document) handle h.
CtxReleases(h) ==
    Cardinality({site \in CallSites :
        CallAt(site).fn = "cleanup_pdf" /\ CallAt(site).ctx = h})
DocReleases(h) ==
    Cardinality({site \in CallSites :
        CallAt(site).fn = "cleanup_pdf" /\ CallAt(site).doc = h})

\* The exits of iter_page and of the clone steps of spawn_tasks.
RenderSucceeded(p) == unit[p] = "returned" /\ result[p] = OkUnit
RenderFailed(p) == unit[p] = "returned" /\ result[p] # OkUnit
WorkerFaulted(p) == unit[p] = "panicked"
CtxCloneErrors ==
    {<<"Base context handle is null">>, <<"Failed to clone context:", BackendWhat>>,
     <<"Cloned context is null">>}
DocCloneErrors ==
    {<<"Failed to clone document:", BackendWhat>>, <<"Cloned document is null">>}
CloneCtxFailed(p) == report[p].detail \in CtxCloneErrors
CloneDocFailed(p) == report[p].detail \in DocCloneErrors
PageFailed(p) ==
    RenderFailed(p) \/ WorkerFaulted(p) \/ CloneCtxFailed(p) \/ CloneDocFailed(p)

\* The backend's render call for page p threw a message containing pat.
RenderThrew(p, pat) ==
    \E i \in DOMAIN native[p] :
        native[p][i].fn = "render_page" /\ Contains(native[p][i].what, pat)

\* Page p's task can take no further step.
TaskQuiescent(p) ==
    /\ wrapper[p] \in {"finished", "cancelled"}
    /\ unit[p] \in {"none", "returned", "panicked"}

StopReceived == exitBy \in {"Stop", "PausedStop"}

\* A step in which iter_pages takes Stop out of the control channel (and not
\* one in which it completes and drops the channel with Stop still queued).
ReceivesStop ==
    /\ ~Returned
    /\ controller # <<>>
    /\ Head(controller) = "Stop"
    /\ Len(controller') < Len(controller)
    /\ exitBy' # "Completed"

\* A call of iter_page on its own has returned (or unwound).
IterPageCalled == call.fn = "iter_page" /\ ret.done
RenderAttempted(calls) == \E i \in DOMAIN calls : calls[i].fn = "render_page"
FlushRequests(calls) ==
    Cardinality({i \in DOMAIN calls : calls[i].fn = "flush_cache"})

\* A call of calc_max_concurrent_pages on its own has returned.
CapacityCalled == call.fn = "calc_max_concurrent_pages" /\ ret.done

\* The control channel is closed and drained while the main loop runs: every
\* controller.recv() from now on yields None.
DrainingStarted == orch = "Running" /\ ~senderOpen /\ controller = <<>>

\* iter_pages returned through the completion arm.
CompletedAll ==
    /\ exitBy = "Completed"
    /\ pages_spawned = page_count
    /\ pool = {}
    /\ AllScheduledOnce

\* The main loop is at its select! and controller.recv() has a message.
MessageAvailable == orch = "Running" /\ controller # <<>>

\* Extractor::new called on its own has returned (or panicked); an Extractor
\* has been dropped.
NewCalled == call.fn = "new" /\ ret.done
DropCalled == call.fn = "drop" /\ ret.done

\* A step in which iter_pages takes message m out of the control channel.
Receives(m) ==
    /\ ~Returned
    /\ controller # <<>>
    /\ Head(controller) = m
    /\ Len(controller') < Len(controller)
    /\ exitBy' # "Completed"

\* The spawn arm evaluated on its own has returned.
SpawnArmCalled == call.fn = "spawn_arm" /\ ret.done

\* Steps of page p's async block around render_callback.send(..).await: it
\* suspends in the send; it completes the send it was suspended in; it ends
\* having had an outcome to send.
BlocksInSend(p) == wrapper[p] # "sending" /\ wrapper'[p] = "sending"
LeavesSendDelivering(p) ==
    /\ wrapper[p] = "sending"
    /\ wrapper'[p] = "finished"
    /\ IF sinkOpen THEN accepted'[p] = Append(accepted[p], report[p])
       ELSE accepted'[p] = accepted[p]
FinishesWithOutcome(p) ==
    /\ wrapper[p] \in {"awaiting", "sending"}
    /\ wrapper'[p] = "finished"
    /\ report'[p] # NoResult

\* No Stop is in the control channel.
NoStopQueued == \A i \in DOMAIN controller : controller[i] # "Stop"

\* The bridge calls that release or flush a handle.
ReleasingCalls == {"cleanup_pdf", "flush_cache"}

\* No release or flush was handed one of the session's own handles.
BaseHandlesUntouched ==
    \A site \in CallSites :
        CallAt(site).fn \in ReleasingCalls =>
            /\ CallAt(site).ctx # BaseCtxAddr
            /\ CallAt(site).doc # BaseDocAddr

(***************************************************************************)
(* C1, as stated: when iter_pages has returned without having received     *)
(* Stop, every page index in [0, page_count) was scheduled exactly once,   *)
(* wherever the control channel was closed, the pause loop included.       *)
(***************************************************************************)
C1_Original == (Returned /\ ~StopReceived) => AllScheduledOnce

(***************************************************************************)
(* C1, amended: when iter_pages has returned without having received Stop  *)
(* and without the control channel having been closed while it was paused, *)
(* every page index in [0, page_count) was scheduled exactly once.         *)
(***************************************************************************)
C1_Amended ==
    (Returned /\ ~StopReceived /\ exitBy # "PausedClosed") => AllScheduledOnce

C1_Witness ==
    /\ exitBy = "Completed"
    /\ ~senderOpen
    /\ page_count >= 2
    /\ Len(scheduled) = page_count
    /\ \E p \in Pages : RenderSucceeded(p)

(***************************************************************************)
(* C2: every cloned handle is handed to cleanup_pdf at most once; a page   *)
(* whose iter_page returned Ok, or returned the backend's render error,    *)
(* has had its ctx' and its doc' released exactly once; a page whose       *)
(* document clone failed has had its ctx' released exactly once.           *)
(***************************************************************************)
C2_ReleasedOncePerPath ==
    \A p \in Pages :
        /\ thread_ctx_addr[p] # Null => CtxReleases(thread_ctx_addr[p]) <= 1
        /\ thread_doc_addr[p] # Null => DocReleases(thread_doc_addr[p]) <= 1
        /\ RenderSucceeded(p) =>
               /\ CtxReleases(thread_ctx_addr[p]) = 1
               /\ DocReleases(thread_doc_addr[p]) = 1
        /\ RenderFailed(p) =>
               /\ CtxReleases(thread_ctx_addr[p]) = 1
               /\ DocReleases(thread_doc_addr[p]) = 1
        /\ CloneDocFailed(p) =>
               /\ CtxReleases(thread_ctx_addr[p]) = 1
               /\ thread_doc_addr[p] = Null

C2_Witness ==
    \E p, q, r \in Pages :
        RenderSucceeded(p) /\ RenderFailed(q) /\ CloneDocFailed(r)

(***************************************************************************)
(* C3: once a page task that was added to the pool can take no further     *)
(* step (and its worker did not fault), its ctx' and doc' have been        *)
(* released exactly once, also when abort_all cancelled it.                *)
(***************************************************************************)
C3_ReleasedDespiteAbort ==
    \A p \in Pages :
        (wrapper[p] # "none" /\ TaskQuiescent(p) /\ ~WorkerFaulted(p)) =>
            /\ CtxReleases(thread_ctx_addr[p]) = 1
            /\ DocReleases(thread_doc_addr[p]) = 1

(***************************************************************************)
(* C4: the number of tasks in the pool, finished but not yet joined ones   *)
(* included, never exceeds calc_max_concurrent_pages.                      *)
(***************************************************************************)
C4_PoolWithinCapacity ==
    Cardinality(pool) <= calc_max_concurrent_pages(parallelism)

C4_Witness ==
    /\ Cardinality(pool) = calc_max_concurrent_pages(parallelism)
    /\ pages_spawned < page_count
    /\ \E p \in pool : wrapper[p] = "finished"

(***************************************************************************)
(* C5: the step that receives Stop, in the main loop or in the pause loop, *)
(* makes iter_pages return whatever the pool holds, joining nothing and    *)
(* scheduling nothing; after the return nothing is scheduled or joined.    *)
(***************************************************************************)
C5_StopHalts ==
    [][/\ ReceivesStop =>
            /\ orch' = "Aborted"
            /\ UNCHANGED <<pages_spawned, pages_completed, pool, scheduled>>
       /\ orch = "Aborted" =>
            UNCHANGED <<orch, pages_spawned, pages_completed, pool, scheduled>>]_vars

C5_Witness ==
    /\ orch = "Aborted"
    /\ exitBy = "PausedStop"
    /\ pages_spawned < page_count
    /\ \E p \in pool : wrapper[p] = "cancelled" /\ unit[p] \in {"queued", "rendered"}

(***************************************************************************)
(* C6: nothing is scheduled while iter_pages is paused, the step that      *)
(* receives Resume leaves pages_spawned as Pause found it, and every       *)
(* scheduling step takes exactly the indices pages_spawned, pages_spawned  *)
(* + 1, ... in order, so the indices scheduled are always 0, 1, 2, ...     *)
(* with none skipped and none repeated.                                    *)
(***************************************************************************)
C6_PauseResume ==
    [][/\ orch = "Paused" => UNCHANGED <<pages_spawned, scheduled>>
       /\ scheduled' # scheduled =>
            /\ pages_spawned' > pages_spawned
            /\ scheduled' = scheduled \o SeqOfRange(pages_spawned, pages_spawned' - 1)
       /\ pages_spawned' # pages_spawned => scheduled' # scheduled]_vars

C6_Witness ==
    /\ orch = "Paused"
    /\ controller # <<>>
    /\ Head(controller) = "Resume"
    /\ pages_spawned > 0
    /\ pages_spawned < page_count

(***************************************************************************)
(* C7: after a natural completion with no clone failure and the result     *)
(* channel open, the channel has accepted exactly one outcome for every    *)
(* page in [0, page_count).                                                *)
(***************************************************************************)
C7_OneOutcomePerPage ==
    (/\ exitBy = "Completed"
     /\ sinkOpen
     /\ \A p \in Pages : detached[p] = "none")
        => \A p \in 0 .. (page_count - 1) : Len(accepted[p]) = 1

(***************************************************************************)
(* C8: an outcome accepted by the result channel for a page whose render   *)
(* call threw a message containing "Document corruption detected" is of    *)
(* the category CorruptionDetected.                                        *)
(***************************************************************************)
C8_CorruptionCategory ==
    \A p \in Pages :
        RenderThrew(p, <<"Document corruption detected">>) =>
            \A i \in DOMAIN accepted[p] : accepted[p][i].cat = "CorruptionDetected"

(***************************************************************************)
(* C9: after a natural completion with the result channel open, if some    *)
(* page failed then every other page that did not fail was scheduled, ran  *)
(* to the end of its unit and had its outcome accepted by the channel.     *)
(***************************************************************************)
C9_FailureIsolated ==
    (exitBy = "Completed" /\ sinkOpen) =>
        \A p, q \in 0 .. (page_count - 1) :
            (p # q /\ PageFailed(p) /\ ~PageFailed(q)) =>
                /\ SchedCount(q) = 1
                /\ unit[q] = "returned"
                /\ Len(accepted[q]) = 1

(***************************************************************************)
(* C10: a page whose clone_ctx failed has no cloned handle, never has a    *)
(* task (it is not in the pool), has had no cleanup_pdf call, and is       *)
(* counted in pages_spawned, scheduled exactly once.                       *)
(***************************************************************************)
C10_CloneCtxFailureSkips ==
    \A p \in Pages :
        CloneCtxFailed(p) =>
            /\ thread_ctx_addr[p] = Null
            /\ thread_doc_addr[p] = Null
            /\ wrapper[p] = "none"
            /\ unit[p] = "none"
            /\ p \notin pool
            /\ \A i \in DOMAIN native[p] : native[p][i].fn # "cleanup_pdf"
            /\ p < pages_spawned
            /\ SchedCount(p) = 1

C10_Witness ==
    \E p \in Pages :
        /\ CloneCtxFailed(p)
        /\ ctx_handle # Null
        /\ p + 1 \in Pages
        /\ wrapper[p + 1] = "finished"

(***************************************************************************)
(* C11, as stated: a call of iter_page that reached the render call has    *)
(* requested flush_cache exactly once when its page index is a multiple of *)
(* 10, whatever the render returned, and not at all otherwise.             *)
(***************************************************************************)
C11_Original ==
    (IterPageCalled /\ RenderAttempted(ret.val.calls)) =>
        FlushRequests(ret.val.calls) = (IF call.page % 10 = 0 THEN 1 ELSE 0)

(***************************************************************************)
(* C11, amended: a call of iter_page has requested flush_cache exactly     *)
(* once, on its own context handle, when its page index is a multiple of   *)
(* 10 and it returned Ok (the render succeeded and the callback returned); *)
(* in every other case it has not requested it at all.                     *)
(***************************************************************************)
C11_FlushOnOkMultiplesOfTen ==
    IterPageCalled =>
        /\ FlushRequests(ret.val.calls) =
               (IF call.page % 10 = 0 /\ ret.val.result = OkUnit THEN 1 ELSE 0)
        /\ \A i \in DOMAIN ret.val.calls :
               ret.val.calls[i].fn = "flush_cache" => ret.val.calls[i].ctx = call.ctx

C11_Witness ==
    /\ IterPageCalled
    /\ call.page = 10
    /\ ret.val.result = OkUnit
    /\ FlushRequests(ret.val.calls) = 1

(***************************************************************************)
(* C12: calc_max_concurrent_pages returns, for a detected core count n,    *)
(* 2n when n is in 1..4, n + 2 when n is in 5..8, n when n is in 9..16,    *)
(* min(floor(3n/4), 32) above 16, and 4 when the count is undetectable; so *)
(* it returns 4 for 2 cores, 8 for 6, 12 for 12 and 32 for 64.             *)
(***************************************************************************)
C12_CapacityTable ==
    CapacityCalled =>
        LET n == call.cores
        IN  /\ n = Undetectable => ret.val = 4
            /\ (1 <= n /\ n <= 4) => ret.val = n + n
            /\ (5 <= n /\ n <= 8) => ret.val = n + 2
            /\ (9 <= n /\ n <= 16) => ret.val = n
            /\ n > 16 => /\ ret.val <= 32
                         /\ 4 * ret.val <= 3 * n
                         /\ ret.val = 32 \/ 4 * (ret.val + 1) > 3 * n
            /\ n = 2 => ret.val = 4
            /\ n = 6 => ret.val = 8
            /\ n = 12 => ret.val = 12
            /\ n = 64 => ret.val = 32

C12_Witness ==
    /\ CapacityCalled
    /\ call.cores = 64
    /\ ret.val = 32

(***************************************************************************)
(* C13, as stated: once the control channel is closed and drained while    *)
(* iter_pages is in its main loop, iter_pages eventually returns through   *)
(* the completion arm with every page index scheduled and the pool empty.  *)
(***************************************************************************)
C13_Original == DrainingStarted ~> CompletedAll

(***************************************************************************)
(* C13, amended: provided the result channel again and again has room or   *)
(* is closed (its consumer keeps draining it), once the control channel is *)
(* closed and drained while iter_pages is in its main loop, iter_pages     *)
(* eventually returns through the completion arm with every page index     *)
(* scheduled and the pool empty.                                           *)
(***************************************************************************)
C13_DrainsToCompletion == ([]<>SendReady) => (DrainingStarted ~> CompletedAll)

C13_Witness ==
    /\ CompletedAll
    /\ ~senderOpen
    /\ page_count = MaxLivePages
    /\ \E p \in Pages : Len(accepted[p]) = 1

C15_ReleasedDespiteFault ==
    \A p \in Pages :
        (WorkerFaulted(p) /\ TaskQuiescent(p)) =>
            /\ CtxReleases(thread_ctx_addr[p]) = 1
            /\ DocReleases(thread_doc_addr[p]) = 1

(***************************************************************************)
(* C16: for a page whose blocking unit panicked, the async block that      *)
(* awaited it (unless it was cancelled first) sends Unexpected("Task       *)
(* panicked: ...") and nothing else: the result channel accepts at most    *)
(* one outcome for the page, that one, and exactly one once the block has  *)
(* finished with the channel open.  The finished task can be joined by the *)
(* main loop, which counts it as completed, and a run that completes has   *)
(* joined every task and scheduled every page.                             *)
(***************************************************************************)
C16_FaultConverted ==
    \A p \in Pages :
        WorkerFaulted(p) =>
            /\ wrapper[p] \in {"sending", "finished"} => report[p] = TaskPanicked
            /\ \A i \in DOMAIN accepted[p] : accepted[p][i] = TaskPanicked
            /\ Len(accepted[p]) <= 1
            /\ (wrapper[p] = "finished" /\ sinkOpen) => Len(accepted[p]) = 1
            /\ (wrapper[p] = "finished" /\ p \in pool /\ orch = "Running")
                   => ENABLED JoinBranch
            /\ exitBy = "Completed" =>
                   /\ p \notin pool
                   /\ AllScheduledOnce
                   /\ pages_completed =
                          Cardinality({q \in Pages : wrapper[q] = "finished"})

C16_Witness ==
    /\ exitBy = "Completed"
    /\ page_count = MaxPages
    /\ WorkerFaulted(0)
    /\ accepted[0] = <<TaskPanicked>>
    /\ RenderSucceeded(MaxPages - 1)

(***************************************************************************)
(* C17: when bridge::init fails, Extractor::new returns an InitError value *)
(* that carries the backend's message, and no Extractor is produced.       *)
(***************************************************************************)
C17_InitErrorReturned ==
    (NewCalled /\ ~call.reply.ok) =>
        /\ ret.val.kind = "InitError"
        /\ ret.val.what = call.reply.what

(***************************************************************************)
(* C18: dropping an Extractor calls cleanup_pdf exactly once, with the two *)
(* base handles, when at least one of them is non-null, and makes no       *)
(* backend call when both are null.                                        *)
(***************************************************************************)
C18_DropCleansOnce ==
    DropCalled =>
        LET self == call.self
        IN  IF self.doc_handle # Null \/ self.ctx_handle # Null
            THEN ret.val = <<Call("cleanup_pdf", self.doc_handle, self.ctx_handle)>>
            ELSE ret.val = <<>>

C18_Witness ==
    /\ DropCalled
    /\ call.self.doc_handle = Null
    /\ call.self.ctx_handle # Null
    /\ Len(ret.val) = 1

(***************************************************************************)
(* C19: no step taken while iter_pages is in its pause loop schedules a    *)
(* page or joins a task: pages_spawned, the indices scheduled, the         *)
(* membership of the pool and pages_completed are as Pause found them      *)
(* until Resume, Stop or the closing of the channel ends the pause.        *)
(***************************************************************************)
C19_PausedIdle ==
    [][orch = "Paused" =>
           UNCHANGED <<pages_spawned, scheduled, pool, pages_completed>>]_vars

C19_Witness ==
    /\ orch = "Paused"
    /\ pages_spawned < page_count
    /\ Cardinality(pool) < calc_max_concurrent_pages(parallelism)
    /\ \E p \in pool : wrapper[p] = "finished"

(***************************************************************************)
(* C20: the step that receives Resume in the main loop, and the step that  *)
(* receives Pause in the pause loop, leave the position of iter_pages,     *)
(* pages_spawned, pages_completed, the pool and its tasks as they were.    *)
(***************************************************************************)
C20_RedundantNoOp ==
    [][((orch = "Running" /\ Receives("Resume"))
            \/ (orch = "Paused" /\ Receives("Pause"))) =>
           UNCHANGED <<orch, exitBy, pages_spawned, pages_completed, pool,
                       scheduled, wrapper>>]_vars

C20_Witness ==
    /\ orch = "Paused"
    /\ controller # <<>>
    /\ Head(controller) = "Pause"
    /\ pages_spawned < page_count
    /\ \E p \in pool : wrapper[p] \in {"unpolled", "awaiting"}

(***************************************************************************)
(* C21: the k-th page index spawn_tasks takes in a run is k - 1: indices   *)
(* are taken in strictly increasing order from 0, none twice, none outside *)
(* [0, page_count), and pages_spawned counts them.                         *)
(***************************************************************************)
C21_ScheduledInOrder ==
    /\ \A k \in DOMAIN scheduled : scheduled[k] = k - 1
    /\ \A k \in DOMAIN scheduled : scheduled[k] >= 0 /\ scheduled[k] < page_count
    /\ \A i \in Pages : SchedCount(i) <= 1
    /\ pages_spawned = Len(scheduled)

C21_Witness ==
    /\ page_count = MaxPages
    /\ scheduled = SeqOfRange(0, MaxPages - 1)
    /\ orch = "Paused"

(***************************************************************************)
(* C22: the spawn arm takes page indices only when pages_spawned is below  *)
(* page_count and the pool is below capacity, and then takes at most       *)
(* BATCH_SIZE = 4 of them, at most as many as the pool has free slots and  *)
(* at most as many as there are pages left.                                *)
(***************************************************************************)
C22_BatchBounded ==
    SpawnArmCalled =>
        LET capacity == calc_max_concurrent_pages(parallelism)
            taken == Cardinality(ret.val.batch)
        IN  /\ taken > 0 => ret.val.ready
            /\ ret.val.ready =>
                   /\ pages_spawned < page_count
                   /\ call.pool_len < capacity
            /\ taken <= 4
            /\ taken <= capacity - call.pool_len
            /\ taken <= page_count - pages_spawned

C22_Witness ==
    /\ SpawnArmCalled
    /\ Cardinality(ret.val.batch) = BATCH_SIZE
    /\ calc_max_concurrent_pages(parallelism) - call.pool_len > BATCH_SIZE
    /\ page_count - pages_spawned > BATCH_SIZE

(***************************************************************************)
(* C23: the step by which iter_pages leaves through the completion arm is  *)
(* taken only with pages_spawned equal to page_count and the pool empty,   *)
(* and schedules nothing; with page_count = 0 the arm is ready from the    *)
(* start for as long as the main loop runs, and nothing is ever scheduled. *)
(***************************************************************************)
C23_CompletesOnlyWhenDone ==
    [][/\ (orch # "Completed" /\ orch' = "Completed") =>
            /\ orch = "Running"
            /\ pages_spawned = page_count
            /\ pool = {}
            /\ UNCHANGED <<pages_spawned, pool, scheduled, native>>
       /\ page_count = 0 =>
            /\ orch = "Running" => ENABLED ExitBranch
            /\ pages_spawned' = 0
            /\ scheduled' = <<>>
            /\ pool' = {}]_vars

C23_Witness ==
    /\ exitBy = "Completed"
    /\ page_count = MaxPages
    /\ pages_spawned = page_count
    /\ pages_completed > 0
    /\ pool = {}

(***************************************************************************)
(* C24: iter_pages never panics in the unreachable! of                     *)
(* handle_task_completion: join_next is never polled on an empty pool,     *)
(* whatever the order of control messages, scheduling steps and task       *)
(* completions.                                                            *)
(***************************************************************************)
C24_NeverUnreachable == orch # "Panicked" /\ exitBy # "Unreachable"

C24_Witness ==
    /\ orch = "Running"
    /\ pool = {}
    /\ pages_completed > 0
    /\ pages_spawned < page_count
    /\ controller # <<>>

(***************************************************************************)
(* C25: the outcome reported for a page whose context clone failed is of   *)
(* the category CloneContextFailure, the one for a page whose document     *)
(* clone failed is of the category CloneDocumentFailure, and each carries  *)
(* the error of the failed clone.                                          *)
(***************************************************************************)
C25_CloneFailureCategories ==
    \A p \in Pages :
        /\ CloneCtxFailed(p) => report[p].cat = "CloneContextFailure"
        /\ CloneDocFailed(p) => report[p].cat = "CloneDocumentFailure"
        /\ (CloneCtxFailed(p) \/ CloneDocFailed(p)) =>
               \A i \in DOMAIN accepted[p] : accepted[p][i] = report[p]

(***************************************************************************)
(* C26: when the backend render call threw, the outcome iter_page returns  *)
(* is of the category that From<&str> for PageRenderError gives the        *)
(* backend's message.                                                      *)
(***************************************************************************)
C26_ClassifiedAsFromStr ==
    (IterPageCalled /\ RenderAttempted(ret.val.calls) /\ ~call.reply.ok) =>
        ret.val.result.cat = from_str(call.reply.what).cat

(***************************************************************************)
(* C27, as stated: a page task enters the blocked send only on a full,     *)
(* open result channel; while blocked it stays in the pool; it leaves the  *)
(* send only by finishing, having delivered its outcome exactly once if    *)
(* the channel is open and having dropped it only if the channel is        *)
(* closed; and a task that finds room delivers at once.                    *)
(***************************************************************************)
C27_Original ==
    [][\A p \in Pages :
         /\ BlocksInSend(p) => (sinkOpen /\ sinkLen = SinkCap /\ p \in pool')
         /\ wrapper[p] = "sending" =>
              \/ wrapper'[p] = "sending" /\ p \in pool' /\ accepted'[p] = accepted[p]
              \/ LeavesSendDelivering(p)
         /\ FinishesWithOutcome(p) =>
              IF sinkOpen THEN accepted'[p] = Append(accepted[p], report'[p])
              ELSE accepted'[p] = accepted[p]]_vars

(***************************************************************************)
(* C27, amended: as above, except that a task blocked in the send can also *)
(* leave it by being cancelled when iter_pages returns on Stop (or on the  *)
(* closing of the control channel while paused); its outcome is then       *)
(* dropped although the result channel is open.                            *)
(***************************************************************************)
C27_BlockedSendDelivers ==
    [][\A p \in Pages :
         /\ BlocksInSend(p) => (sinkOpen /\ sinkLen = SinkCap /\ p \in pool')
         /\ wrapper[p] = "sending" =>
              \/ wrapper'[p] = "sending" /\ p \in pool' /\ accepted'[p] = accepted[p]
              \/ LeavesSendDelivering(p)
              \/ /\ wrapper'[p] = "cancelled"
                 /\ orch' = "Aborted"
                 /\ accepted'[p] = accepted[p]
         /\ FinishesWithOutcome(p) =>
              IF sinkOpen THEN accepted'[p] = Append(accepted[p], report'[p])
              ELSE accepted'[p] = accepted[p]]_vars

C27_Witness ==
    \E p \in pool :
        /\ wrapper[p] = "sending"
        /\ sinkOpen
        /\ sinkLen = SinkCap
        /\ accepted[p] = <<>>
        /\ orch = "Running"

(***************************************************************************)
(* C28: in every fair run in which no Stop is ever sent, the control       *)
(* channel is not closed while iter_pages is paused, every pause is        *)
(* eventually ended by Resume, and the result channel again and again has  *)
(* room or is closed, iter_pages eventually returns through the completion *)
(* arm with every page scheduled and the pool empty.                       *)
(***************************************************************************)
C28_Terminates ==
    (/\ []NoStopQueued
     /\ [](exitBy # "PausedClosed")
     /\ (orch = "Paused") ~> (orch = "Running")
     /\ []<>SendReady)
        => <>CompletedAll

C28_Witness ==
    /\ CompletedAll
    /\ senderOpen
    /\ page_count = MaxLivePages
    /\ pages_completed < page_count
    /\ \E p \in Pages : accepted[p] = <<TaskPanicked>>

(***************************************************************************)
(* C29: the backend calls of one iter_page are ordered: the render call    *)
(* comes first; the callback runs only after a successful render; the      *)
(* image is freed at most once, only after the callback, and exactly once  *)
(* when the callback returned; flush_cache comes after the free and only   *)
(* for a page index that is a multiple of 10; cleanup_pdf comes last and   *)
(* at most once, so that no callback or flush_cache follows it; and when   *)
(* the render call threw, the image is never freed.                        *)
(***************************************************************************)
C29_CallsOrdered ==
    IterPageCalled =>
        LET calls == ret.val.calls
            At(f) == {i \in DOMAIN calls : calls[i].fn = f}
            Before(f, g) == \A i \in At(f), j \in At(g) : i < j
        IN  /\ At("render_page") \subseteq {1}
            /\ At("callback") # {} => (At("render_page") = {1} /\ call.reply.ok)
            /\ Before("render_page", "callback")
            /\ Before("callback", "free_image_data")
            /\ Before("free_image_data", "flush_cache")
            /\ Before("flush_cache", "cleanup_pdf")
            /\ Before("callback", "cleanup_pdf")
            /\ Cardinality(At("callback")) <= 1
            /\ Cardinality(At("free_image_data")) <= 1
            /\ Cardinality(At("cleanup_pdf")) <= 1
            /\ At("free_image_data") # {} => At("callback") # {}
            /\ At("flush_cache") # {} =>
                   (At("free_image_data") # {} /\ call.page % 10 = 0)
            /\ ret.val.result = OkUnit =>
                   /\ Cardinality(At("free_image_data")) = 1
                   /\ At("cleanup_pdf") = {Len(calls)}
            /\ ~call.reply.ok => At("free_image_data") = {}
            /\ \A i \in At("callback") \cup At("flush_cache") \cup At("render_page") :
                   \A j \in At("cleanup_pdf") : i < j

C29_Witness ==
    /\ IterPageCalled
    /\ call.page = MaxPageIndex
    /\ ret.val.result = OkUnit
    /\ Len(ret.val.calls) = 5

(***************************************************************************)
(* C30: with a null base context handle every page taken fails in          *)
(* clone_ctx with "Base context handle is null", no bridge call is made    *)
(* and no handle is created for it; and every page task that is spawned    *)
(* was handed a non-null ctx' and a non-null doc', also when the backend   *)
(* reported a clone as successful and left the handle null.                *)
(***************************************************************************)
C30_HandlesNonNull ==
    \A p \in Pages :
        /\ (ctx_handle = Null /\ p < pages_spawned) =>
               /\ report[p] = PageRenderError("Unexpected",
                                  <<"Base context handle is null">>)
               /\ native[p] = <<>>
               /\ thread_ctx_addr[p] = Null
               /\ thread_doc_addr[p] = Null
               /\ wrapper[p] = "none"
        /\ wrapper[p] # "none" =>
               /\ thread_ctx_addr[p] # Null
               /\ thread_doc_addr[p] # Null
        /\ report[p].detail \in {<<"Cloned context is null">>,
                                 <<"Cloned document is null">>} =>
               wrapper[p] = "none"
        /\ result[p].cat # "InvalidContextHandle"

C30_Witness ==
    /\ ctx_handle # Null
    /\ \E p, q, r \in Pages :
         /\ report[p].detail = <<"Cloned context is null">>
         /\ report[q].detail = <<"Cloned document is null">>
         /\ unit[r] = "returned"

(***************************************************************************)
(* C31: no step of a run (a control message received, a batch scheduled    *)
(* with its clones, a step of a page task, a join, the return) changes     *)
(* page_count, doc_handle or ctx_handle, and none hands cleanup_pdf or     *)
(* flush_cache one of the session's own handles: they have the values at   *)
(* the return of iter_pages that they had at its entry, and releasing them *)
(* is left to Drop.                                                        *)
(***************************************************************************)
C31_BaseHandlesFramed ==
    [][/\ page_count' = page_count
       /\ doc_handle' = doc_handle
       /\ ctx_handle' = ctx_handle
       /\ BaseHandlesUntouched']_vars

C31_Witness ==
    /\ exitBy = "Completed"
    /\ page_count = MaxPages
    /\ ctx_handle = BaseCtxAddr
    /\ \E p, q, r \in Pages :
         /\ CloneDocFailed(p)
         /\ RenderSucceeded(q)
         /\ RenderFailed(r)

\* The page tasks whose bridge calls were handed the cloned handle h.
HandleCalls == {"render_page", "flush_cache", "cleanup_pdf"}
TasksUsing(h) ==
    {site[1] : site \in {s \in CallSites :
        /\ CallAt(s).fn \in HandleCalls
        /\ CallAt(s).ctx = h \/ CallAt(s).doc = h}}

\* Page p's task was added to the pool with a pair of cloned handles.
HoldsPair(p) == wrapper[p] # "none"

\* No handle of a pair is held by a second task or handed to a bridge call
\* on behalf of another page.
HandlePairsExclusive ==
    \A p \in Pages :
        HoldsPair(p) =>
            /\ TasksUsing(thread_ctx_addr[p]) \subseteq {p}
            /\ TasksUsing(thread_doc_addr[p]) \subseteq {p}
            /\ \A q \in Pages \ {p} :
                 HoldsPair(q) =>
                     /\ thread_ctx_addr[q] # thread_ctx_addr[p]
                     /\ thread_doc_addr[q] # thread_doc_addr[p]

(***************************************************************************)
(* C32: every pair of cloned handles given to a page task is used by       *)
(* exactly one task, its own: once the task can take no further step, the  *)
(* bridge calls made with its ctx' and with its doc' are calls of that     *)
(* task and of no other, and no two tasks hold the same handle.            *)
(***************************************************************************)
C32_PairUsedByOneTask ==
    /\ HandlePairsExclusive
    /\ \A p \in Pages :
         (HoldsPair(p) /\ TaskQuiescent(p)) =>
             /\ TasksUsing(thread_ctx_addr[p]) = {p}
             /\ TasksUsing(thread_doc_addr[p]) = {p}

\* The pause loop is at controller.recv() and the channel is closed and
\* drained: recv yields None.
PausedAndClosed == orch = "Paused" /\ controller = <<>> /\ ~senderOpen

\* A step of iter_pages itself (and not of a task or of the environment).
OrchestratorSteps ==
    <<orch, exitBy, pages_spawned, pages_completed, pool, scheduled>>'
        # <<orch, exitBy, pages_spawned, pages_completed, pool, scheduled>>

(***************************************************************************)
(* C33: when the pause loop finds the control channel closed, the only     *)
(* step iter_pages takes is to abort every task of the pool and return:    *)
(* every task of the pool that had not finished is cancelled, nothing is   *)
(* scheduled or joined in that step, and nothing is scheduled after it, so *)
(* the indices from pages_spawned on stay unscheduled.                     *)
(***************************************************************************)
C33_PausedCloseAborts ==
    [][/\ (PausedAndClosed /\ OrchestratorSteps) =>
              /\ orch' = "Aborted"
              /\ exitBy' = "PausedClosed"
              /\ \A p \in pool : wrapper'[p] \in {"finished", "cancelled"}
              /\ UNCHANGED <<pages_spawned, pages_completed, pool, scheduled>>
       /\ exitBy = "PausedClosed" =>
              /\ UNCHANGED <<orch, exitBy, pages_spawned, scheduled>>
              /\ \A p \in Pages : wrapper[p] = "cancelled" => wrapper'[p] = "cancelled"
              /\ scheduled = SeqOfRange(0, pages_spawned - 1)]_vars

C33_Witness ==
    /\ exitBy = "PausedClosed"
    /\ pages_spawned < page_count
    /\ \E p, q \in pool : wrapper[p] = "cancelled" /\ wrapper[q] = "finished"

\* An outcome was produced for page p (by its task or by spawn_tasks).
ReportProduced(p) == report[p] # NoResult

(***************************************************************************)
(* C34: when iter_pages has returned through the completion arm and the    *)
(* consumer still holds the result channel, every outcome produced during  *)
(* the run, those of pages skipped for a clone failure included, has been  *)
(* accepted by the channel: no detached sender still holds a report.       *)
(***************************************************************************)
C34_ReportsAcceptedAtCompletion ==
    (exitBy = "Completed" /\ sinkOpen) =>
        \A p \in Pages :
            ReportProduced(p) =>
                /\ detached[p] # "pending"
                /\ accepted[p] = <<report[p]>>

\* The pages for which spawn_tasks added a task to the pool, and those it
\* skipped because a clone failed.
PagesWithTask == {p \in Pages : HoldsPair(p)}
PagesSkipped == {p \in Pages : detached[p] # "none"}

(***************************************************************************)
(* C35: in every reachable state 0 <= pages_completed <= pages_spawned <=  *)
(* page_count and pages_completed plus the size of the pool is at most     *)
(* pages_spawned; and when iter_pages has returned through the completion  *)
(* arm, pages_completed is the number of pages for which a task was        *)
(* spawned, that is page_count less the pages skipped for a clone failure, *)
(* pages whose render failed or whose worker faulted counted in.           *)
(***************************************************************************)
C35_ProgressAccounting ==
    /\ 0 <= pages_completed
    /\ pages_completed <= pages_spawned
    /\ pages_spawned <= page_count
    /\ pages_completed + Cardinality(pool) <= pages_spawned
    /\ exitBy = "Completed" =>
           /\ pages_completed = Cardinality(PagesWithTask)
           /\ pages_completed = page_count - Cardinality(PagesSkipped)

C35_Witness ==
    /\ exitBy = "Completed"
    /\ page_count = MaxPages
    /\ pages_completed = MaxPages - 1
    /\ \E p, q, r \in Pages :
         /\ p \in PagesSkipped
         /\ WorkerFaulted(q)
         /\ RenderFailed(r)

\* ConcreteObject::add_child called on its own has returned.
AddChildCalled == call.fn = "add_child" /\ ret.done

\* A children list with no two entries of one type, all of expected types.
NoTwoOfOneType(children) ==
    \A i, j \in DOMAIN children : children[i].id = children[j].id => i = j
OnlyExpected(children, expected) ==
    \A i \in DOMAIN children : children[i].id \in expected
Admissible(self, child) ==
    /\ \A i \in DOMAIN self.children : self.children[i].id # child.id
    /\ child.id \in self.expected_children

(***************************************************************************)
(* C36: ConcreteObject::add_child pushes the child, and returns Ok, only   *)
(* when no child of its type is in the list yet and its type is one of     *)
(* expected_children; otherwise it returns an Err and leaves the list as   *)
(* it was.  So after any sequence of add_child calls on an object that     *)
(* started without children, the list holds no two entries of one type and *)
(* only entries of expected types.                                         *)
(***************************************************************************)
C36_AddChildChecked ==
    /\ call.fn = "add_child" =>
           /\ NoTwoOfOneType(call.self.children)
           /\ OnlyExpected(call.self.children, call.self.expected_children)
    /\ AddChildCalled =>
           /\ IF Admissible(call.self, call.child)
              THEN /\ ret.val.result = Ok
                   /\ ret.val.self.children = Append(call.self.children, call.child)
              ELSE /\ ~ret.val.result.ok
                   /\ ret.val.self.children = call.self.children
           /\ ret.val.self.expected_children = call.self.expected_children
           /\ NoTwoOfOneType(ret.val.self.children)
           /\ OnlyExpected(ret.val.self.children, ret.val.self.expected_children)

C36_Witness ==
    /\ AddChildCalled
    /\ call.n = MaxAddCalls
    /\ Len(call.self.children) = 2
    /\ call.self.expected_children = {1, 2}
    /\ call.child.id = 1
    /\ \A i \in DOMAIN call.self.children : call.self.children[i].obj # call.child.obj
    /\ ret.val.result = Err(<<"Child of this type already exists">>)

\* bind_pair / add_pair_child called on its own has returned.
BindPairCalled == call.fn = "bind_pair" /\ ret.done
AddPairChildCalled == call.fn = "add_pair_child" /\ ret.done

\* get_pair_info on the ConcretePair side finds a ConcretePair that wraps
\* the object other and has the sequence seq.
ResolvesTo(arcs, side, other, seq) ==
    /\ side.pair # <<>>
    /\ get_pair_info(arcs, side) # <<>>
    /\ arcs[get_pair_info(arcs, side)[1]].value.inner = other
    /\ arcs[get_pair_info(arcs, side)[1]].value.sequence = seq

(***************************************************************************)
(* C37: after bind_pair, while the caller holds the two Arcs it returned,  *)
(* and after add_pair_child returned Ok, while the root holds the two      *)
(* children it pushed, the partner pointer of each side is not None and    *)
(* get_pair_info on the first side yields the second, of sequence Last,    *)
(* and on the second side the first, of sequence First.                    *)
(***************************************************************************)
C37_PairResolves ==
    /\ BindPairCalled =>
           /\ ResolvesTo(ret.val.arcs, ret.val.arcs[ret.val.p1].value,
                         call.obj_2, "Last")
           /\ ResolvesTo(ret.val.arcs, ret.val.arcs[ret.val.p2].value,
                         call.obj_1, "First")
    /\ (AddPairChildCalled /\ ret.val.result.ok) =>
           LET children == ret.val.self.children
               first == children[Len(children) - 1]
               last == children[Len(children)]
           IN  /\ first.sequence = "First" /\ first.inner = call.T
               /\ last.sequence = "Last" /\ last.inner = call.U
               /\ ResolvesTo(ret.val.arcs, first, call.U, "Last")
               /\ ResolvesTo(ret.val.arcs, last, call.T, "First")

\* A cast called on its own has returned.
CastClassificationCalled == call.fn = "cast_classification" /\ ret.done
CastExtractionCalled == call.fn = "cast_extraction" /\ ret.done

(***************************************************************************)
(* C38: cast_classification::<T, E> on an object whose classification      *)
(* method was stored as a ClassificationMethod<T, E> returns Ok of the     *)
(* very function pointer that was stored, and with any other T or E it     *)
(* returns Err(CastError::TypeMismatch) whose expected field is the type   *)
(* asked for; cast_extraction::<T, E, S> does the same for the extraction  *)
(* method stored as an ExtractionMethod<T, E, S>.                          *)
(***************************************************************************)
C38_CastRoundTrip ==
    /\ CastClassificationCalled =>
           LET stored == call.self.stored
           IN  IF call.T = stored.T /\ call.E = stored.E
               THEN ret.val = OkFn(stored.classify)
               ELSE /\ ~ret.val.ok
                    /\ ret.val.err = "TypeMismatch"
                    /\ ret.val.expected =
                           TypeId_of_ClassificationMethod(call.T, call.E)
    /\ CastExtractionCalled =>
           LET stored == call.self.stored
           IN  IF call.T = stored.T /\ call.E = stored.E /\ call.S = stored.S
               THEN ret.val = OkFn(stored.extract)
               ELSE /\ ~ret.val.ok
                    /\ ret.val.err = "TypeMismatch"
                    /\ ret.val.expected =
                           TypeId_of_ExtractionMethod(call.T, call.E, call.S)

C38_Witness ==
    /\ CastClassificationCalled
    /\ call.T = call.self.stored.T
    /\ call.E = call.self.stored.E
    /\ call.self.stored.classify = MaxObjs
    /\ call.self.stored.extract # MaxObjs
    /\ ret.val = OkFn(MaxObjs)

\* available_slots of spawn_tasks for a pool of poolLen tasks, as the
\* integer the usize subtraction stands for.
available_slots(poolLen) == calc_max_concurrent_pages(parallelism) - poolLen

(***************************************************************************)
(* C39: for every detected core count of at least 1 the capacity is at     *)
(* least 2 and at most 32; and whenever the spawn arm is ready, the pool   *)
(* is smaller than the capacity, so that capacity - pool size, which       *)
(* spawn_tasks computes in usize, is at least 1 and at most 32 and does    *)
(* not underflow, and at least one page index is taken.                    *)
(***************************************************************************)
C39_CapacityPositive ==
    /\ (CapacityCalled /\ call.cores >= 1) =>
           /\ 2 <= ret.val
           /\ ret.val <= 32
    /\ (SpawnArmCalled /\ ret.val.ready) =>
           /\ call.pool_len < calc_max_concurrent_pages(parallelism)
           /\ 1 <= available_slots(call.pool_len)
           /\ available_slots(call.pool_len) <= 32
           /\ ret.val.batch # {}

C39_Witness ==
    /\ SpawnArmCalled
    /\ ret.val.ready
    /\ call.pool_len > 0
    /\ available_slots(call.pool_len) = 1
    /\ page_count - pages_spawned > 1
    /\ Cardinality(ret.val.batch) = 1

=============================================================================
